---- MODULE Spec2Model ----
(***************************************************************************)
(* A model of src/main.py: the booklet scraper.  main() walks the owned   *)
(* booklets; scrape_booklet lists the chapters of one booklet, fetches    *)
(* them on a thread pool, gathers the results by title and writes them in *)
(* list order, each body first passed through the image localizer.        *)
(***************************************************************************)
EXTENDS Integers, Sequences, FiniteSets, TLC

\* ---------------------------------------------------------------- bounds
MaxChapters == 2      \* longest chapter list the listing API reports
MaxBooks == 3         \* number of booklet identifiers
MaxWorkers == 2       \* largest max_workers of the configuration
MaxCalls == 2         \* calls of extract_and_download_images in LocSpec
MaxShort == 2         \* longest of the short titles of NameSpec
ScenarioChapters == 12  \* chapters of the short booklet of NameSpec

\* ------------------------------------------------------ program constants
NameCap == 100        \* _sanitize_filename keeps at most 100 characters
PadWidth == 3         \* the file index is formatted with :03d

\* ------------------------------------------------------------- strings
\* A string is a sequence of one-character strings.
Illegal == {"<", ">", ":", "\"", "/", "\\", "|", "?", "*"}
Whitespace == {" ", "\t", "\n"}

RECURSIVE LStrip(_)
LStrip(s) == IF s # <<>> /\ Head(s) \in Whitespace THEN LStrip(Tail(s)) ELSE s

RECURSIVE RStrip(_)
RStrip(s) ==
  IF s # <<>> /\ s[Len(s)] \in Whitespace THEN RStrip(SubSeq(s, 1, Len(s) - 1)) ELSE s

Untitled == <<"u", "n", "t", "i", "t", "l", "e", "d">>

\* SanitizeFilename with a fault: the name is not stripped.
SanitizeFilenameNoStrip(filename) ==
  LET subbed == [i \in 1..Len(filename) |->
                   IF filename[i] \in Illegal THEN "_" ELSE filename[i]]
      safe_name == IF subbed = <<>> THEN Untitled ELSE subbed
  IN  IF Len(safe_name) > NameCap THEN SubSeq(safe_name, 1, NameCap) ELSE safe_name

SanitizeFilename(filename) ==
  LET subbed == [i \in 1..Len(filename) |->
                   IF filename[i] \in Illegal THEN "_" ELSE filename[i]]
      stripped == RStrip(LStrip(subbed))
      safe_name == IF stripped = <<>> THEN Untitled ELSE stripped
  IN  IF Len(safe_name) > NameCap THEN SubSeq(safe_name, 1, NameCap) ELSE safe_name

Digit(d) == <<"0", "1", "2", "3", "4", "5", "6", "7", "8", "9">>[d + 1]

RECURSIVE Decimal(_)
Decimal(n) == IF n < 10 THEN <<Digit(n)>> ELSE Append(Decimal(n \div 10), Digit(n % 10))

\* ZeroPad with a fault: the index is formatted with no padding.
ZeroPadNone(s, w) == s

RECURSIVE ZeroPad(_, _)
ZeroPad(s, w) == IF Len(s) >= w THEN s ELSE ZeroPad(<<"0">> \o s, w)

\* f"{index:03d}_{safe_title}.md"
FileName(index, title) ==
  ZeroPad(Decimal(index), PadWidth) \o <<"_">> \o SanitizeFilename(title) \o <<".", "m", "d">>

\* ---------------------------------------------------------------- URLs
\* A URL or path is a record: kind "abs" (starts with http:// or https://),
\* "rel" (anything else found in a document) or "local" (an img/ path made
\* by download_image); n identifies the text, ext is the lower-case suffix
\* of its path, ws says whether it is written with surrounding blanks.
NoUrl == [kind |-> "none", n |-> 0, ext |-> "", ws |-> FALSE]
AbsUrl(k, e) == [kind |-> "abs", n |-> k, ext |-> e, ws |-> FALSE]
RelUrl(k, e) == [kind |-> "rel", n |-> k, ext |-> e, ws |-> FALSE]

Strip(u) == [u EXCEPT !.ws = FALSE]

StartsWithHttp(u) == u.kind = "abs"

ExtCode(e) == CASE e = "jpg" -> 1 [] e = "png" -> 2 [] e = "gif" -> 3
                [] e = "webp" -> 4 [] e = "svg" -> 5 [] e = "jpeg" -> 6 [] OTHER -> 0

\* urljoin('https://juejin.cn/', url): the relative URL k is the path of the
\* absolute URL k; an img/ path joins to a URL of its own on the same host.
UrlJoin(u) ==
  IF u.kind = "rel" THEN AbsUrl(u.n, u.ext)
  ELSE AbsUrl(100 + 10 * u.n + ExtCode(u.ext), u.ext)

ContentTypes == {"image/webp", ""}

GetImageExtension(url, content_type) ==
  CASE content_type \in {"image/jpeg", "image/jpg"} -> "jpg"
    [] content_type = "image/png" -> "png"
    [] content_type = "image/gif" -> "gif"
    [] content_type = "image/webp" -> "webp"
    [] OTHER -> IF url.ext \in {"jpg", "jpeg", "png", "gif", "webp", "svg"}
                THEN url.ext ELSE "jpg"

\* "img/" + _generate_filename(url, ext); the md5 prefix of a URL is taken
\* to identify the URL.
LocalPath(url, ext) == [kind |-> "local", n |-> url.n, ext |-> ext, ws |-> FALSE]

\* ----------------------------------------------------------- documents
\* A document is a sequence of tokens: plain text, ![alt](url), <img src="url">.
Text(k) == [syn |-> "text", alt |-> k, url |-> NoUrl]
Md(a, u) == [syn |-> "md", alt |-> a, url |-> u]
Html(u) == [syn |-> "html", alt |-> 0, url |-> u]

\* re.findall of the i-th pattern: the tokens of that syntax, in order.
FindAll(pattern, content) ==
  SelectSeq(content, LAMBDA t : t.syn = (IF pattern = 1 THEN "md" ELSE "html"))

\* content.replace('![alt](url)', '![alt](local_path)')
ReplaceMd(content, alt, url, local_path) ==
  [i \in 1..Len(content) |->
     IF content[i].syn = "md" /\ content[i].alt = alt /\ content[i].url = url
     THEN [content[i] EXCEPT !.url = local_path] ELSE content[i]]

\* content.replace('src="url"', 'src="local_path"'), both quote styles
ReplaceSrc(content, url, local_path) ==
  [i \in 1..Len(content) |->
     IF content[i].syn = "html" /\ content[i].url = url
     THEN [content[i] EXCEPT !.url = local_path] ELSE content[i]]

\* len(match) of a match of the html pattern, which re.findall returns as
\* the URL string itself: every URL of the model has more than two characters.
UrlLen(u) == 3


\* -------------------------------------------------------------- inputs
BookIds == 1..MaxBooks

\* An exclusion entry Variant + k is the identifier k written differently
\* (a blank, another case): as a string it equals no identifier.
Variant == 10 * MaxBooks

Titles == {<<"a">>, <<"b", "/">>}

U1 == AbsUrl(1, "png")
U2 == AbsUrl(2, "")
R1 == RelUrl(1, "png")

\* The image part of the chapter bodies the content API may serve.
Docs == {<<Md(0, U1)>>, <<Md(0, R1), Md(0, R1)>>}

\* Python's None and str values of a chapter body.
None == [ok |-> FALSE, doc |-> <<>>]
Str(d) == [ok |-> TRUE, doc |-> d]
Truthy(content) == content.ok /\ content.doc # <<>>

\* markdown_show of the section id: its own text, then the images; or ''.
Bodies(id) == {<<>>} \cup {<<Text(id)>> \o d : d \in Docs}

\* The booklet 1 has up to MaxChapters chapters, the others at most one.
ChaptersOf(book_id) == IF book_id = 1 THEN MaxChapters ELSE 1

\* data['data']['sections'] of a reply: section_id is the position.
Listings(book_id) ==
  UNION {{[i \in 1..n |-> [draft_title |-> f[i], section_id |-> i]] :
            f \in [1..n -> Titles]} : n \in 0..ChaptersOf(book_id)}

\* ----------------------------------------------------- dictionaries
\* A dict is the sequence of its items in insertion order.
HasKey(d, k) == \E j \in 1..Len(d) : d[j].key = k

DictPut(d, k, v) ==
  IF HasKey(d, k)
  THEN [j \in 1..Len(d) |-> IF d[j].key = k THEN [key |-> k, val |-> v] ELSE d[j]]
  ELSE Append(d, [key |-> k, val |-> v])

RECURSIVE SectionsDictFrom(_, _)
SectionsDictFrom(secs, d) ==
  IF secs = <<>> THEN d
  ELSE SectionsDictFrom(Tail(secs),
                        DictPut(d, Head(secs).draft_title, Head(secs).section_id))

\* {section['draft_title']: section['section_id'] for section in sections}
SectionsDict(secs) == SectionsDictFrom(secs, <<>>)

\* results.get(title)
DictGet(d, k) == IF HasKey(d, k) THEN (CHOOSE x \in {d[j] : j \in 1..Len(d)} : x.key = k).val
                 ELSE None

\* ------------------------------------------------------------ state
VARIABLES
  cfg,              \* BookletConfig
  pc,               \* where the main thread is
  exit_code,        \* what main() returned: -1 while it runs
  book_id_list,     \* getBookList()
  bi,               \* index of the for loop of main
  invoked,          \* the identifiers scrape_booklet was called with, in order
  outputs,          \* the identifiers whose output file or directory was made
  list_failed,      \* the identifiers whose get_booklet_sections call raised
  shelf,            \* the bookshelf reply get_book_list received, if it was called
  sections,         \* the dict get_booklet_sections returned
  api_sections,     \* the section list of the API reply it was made from
  task,             \* the futures of the pool, by position in section_items
  collected,        \* the positions as_completed has yielded, in order
  results,          \* the results dict
  wi,               \* i of the write loop
  success_count,
  file,             \* single-file mode: the chunks written to the .md file
  files,            \* multi-file mode: the files of the booklet's directory
  summary,          \* what the last log lines of scrape_booklet report
  image_downloader, \* None, or the ImageDownloader with its downloaded_images
  requests,         \* the download requests sent by the ImageDownloader
  cache_writes,     \* every (url, path) stored into downloaded_images
  loc,              \* the frame of extract_and_download_images
  calls,            \* LocSpec: the calls made
  req_at_call,      \* Len(requests) when the current or last call was entered
  dl_failed,        \* the URLs whose download failed in that call and did not succeed since
  loc_in,           \* the document the current or last call was given
  loc_out           \* the document the last call returned

vars == <<cfg, pc, exit_code, book_id_list, bi, invoked, outputs, list_failed, shelf,
          sections, api_sections, task, collected, results, wi, success_count, file, files,
          summary, image_downloader, requests, cache_writes, loc,
          calls, req_at_call, dl_failed, loc_in, loc_out>>

mainVars == <<cfg, exit_code, book_id_list, bi, invoked, outputs, list_failed, shelf>>
bookVars == <<sections, api_sections, task, collected, results, wi, success_count,
              file, files, summary>>
imgVars == <<image_downloader, requests, cache_writes>>
locVars == <<loc, calls, req_at_call, dl_failed, loc_in, loc_out>>


\* ------------------------------------------------------- configuration
ExcludeLists == {{2}, {Variant + 2}}

OwnedLists == {<<>>, <<1>>, <<2, 1>>} \cup {[i \in 1..MaxBooks |-> i]}

\* auto_title is read in single-file mode only, and with auto_all off the
\* one identifier of the run is book_id, which no exclusion list here names.
Configs ==
  {c \in [cookie : {"c"}, book_id : {1}, max_workers : {1, MaxWorkers},
          auto_title : BOOLEAN, auto_all : BOOLEAN, merge_single_file : BOOLEAN,
          download_images : BOOLEAN, exclude : ExcludeLists] :
     /\ c.merge_single_file \/ c.auto_title
     /\ c.auto_all \/ c.exclude = {2}}

\* ----------------------------------------------------------- localizer
LocIdle == [lpc |-> "idle", pattern |-> 0, matches |-> <<>>, mi |-> 0,
            content |-> <<>>, arg |-> NoUrl, url |-> NoUrl]

\* NewDownloader with a fault: the ImageDownloader of the booklet before is
\* kept when there is one.
KeptDownloader == [image_downloader EXCEPT !.exists = TRUE]

NoDownloader == [exists |-> FALSE, downloaded_images |-> <<>>]
NewDownloader == [exists |-> TRUE, downloaded_images |-> <<>>]

\* The frame after the matches before position i of the pattern are done:
\* the next match, the second pattern once the first is exhausted, or the
\* return of modified_content.
RECURSIVE Settle(_, _, _, _)
Settle(pattern, matches, i, content) ==
  IF i <= Len(matches)
  THEN [LocIdle EXCEPT !.lpc = "match", !.pattern = pattern, !.matches = matches,
                       !.mi = i, !.content = content]
  ELSE IF pattern = 1 THEN Settle(2, FindAll(2, content), 1, content)
  ELSE [LocIdle EXCEPT !.lpc = "ret", !.content = content]

\* extract_and_download_images up to its first match
ExtractBegin(content) ==
  IF content = <<>> THEN [LocIdle EXCEPT !.lpc = "ret", !.content = content]
  ELSE Settle(1, FindAll(1, content), 1, content)

\* The two replace calls of a match, given the local path.
Rewrite(content, pattern, m, local_path) ==
  IF pattern = 1 THEN ReplaceMd(content, m.alt, m.url, local_path)
  ELSE ReplaceSrc(content, m.url, local_path)

\* Whether the loop body calls download_image for a match of the pattern.
Handled(pattern, m) == pattern = 1 \/ UrlLen(m.url) = 1

CacheHit(url) == HasKey(image_downloader.downloaded_images, url)

\* One match of the loop, up to the cache lookup of download_image: a hit
\* rewrites and goes on, a miss sends the request and waits for the reply.
LocMatch ==
  /\ loc.lpc = "match"
  /\ LET m == loc.matches[loc.mi]
         arg == Strip(m.url)
     IN  IF ~Handled(loc.pattern, m)
         THEN /\ loc' = Settle(loc.pattern, loc.matches, loc.mi + 1, loc.content)
              /\ UNCHANGED requests
         ELSE IF CacheHit(arg)
         THEN /\ loc' = Settle(loc.pattern, loc.matches, loc.mi + 1,
                               Rewrite(loc.content, loc.pattern, m,
                                       DictGet(image_downloader.downloaded_images, arg)))
              /\ UNCHANGED requests
         ELSE /\ loc' = [loc EXCEPT !.lpc = "await", !.arg = arg,
                                    !.url = IF StartsWithHttp(arg) THEN arg ELSE UrlJoin(arg)]
              /\ requests' = Append(requests, arg)
  /\ UNCHANGED <<pc, mainVars, bookVars, image_downloader, cache_writes, calls,
                 req_at_call, dl_failed, loc_in, loc_out>>

\* The rest of download_image once the reply is there: a failure returns
\* None and the text stays; a success stores the file and the cache entry
\* under the requested URL, and the references are rewritten.
LocResponse ==
  /\ loc.lpc = "await"
  /\ \E status \in {"ok", "error"}, content_type \in ContentTypes :
       LET m == loc.matches[loc.mi]
           local_path == LocalPath(loc.url, GetImageExtension(loc.url, content_type))
       IN  IF status = "error"
           THEN /\ loc' = Settle(loc.pattern, loc.matches, loc.mi + 1, loc.content)
                /\ UNCHANGED <<image_downloader, cache_writes>>
                /\ dl_failed' = dl_failed \cup {loc.arg}
           ELSE /\ loc' = Settle(loc.pattern, loc.matches, loc.mi + 1,
                                 Rewrite(loc.content, loc.pattern, m, local_path))
                /\ image_downloader' =
                     [image_downloader EXCEPT !.downloaded_images =
                        DictPut(image_downloader.downloaded_images, loc.url, local_path)]
                /\ cache_writes' = cache_writes \cup {[url |-> loc.url, path |-> local_path]}
                /\ dl_failed' = dl_failed \ {loc.arg}
  /\ UNCHANGED <<pc, mainVars, bookVars, requests, calls, req_at_call, loc_in, loc_out>>


\* ----------------------------------------------------------- the API
\* The replies of the bookshelf call: the list of owned booklets, a transport
\* failure, an HTTP error status, and a reply whose err_no is not zero, which
\* carries no data either by having no "data" key or by having it null.
BookListReplies == {"ok", "transport_error", "http_error", "error_no_data_key",
                    "error_null_data"}

\* get_book_list on a reply: what it returns or that it raises.  err_no is
\* never read.  Only requests.RequestException is caught, and
\* data.get('data', []) is None when the key is there with a null, so the
\* comprehension over it raises a TypeError out of the function.
GetBookListResult(reply, owned) ==
  CASE reply = "ok" -> [raised |-> FALSE, ids |-> owned]
    [] reply \in {"transport_error", "http_error"} -> [raised |-> FALSE, ids |-> <<>>]
    [] reply = "error_no_data_key" -> [raised |-> FALSE, ids |-> <<>>]
    [] OTHER -> [raised |-> TRUE, ids |-> <<>>]

NoShelf == [reply |-> "none", owned |-> <<>>]

\* get_section_content on a reply: what the task returns or that it raises.
\* A reply that is no JSON object of the expected shape raises out of the
\* function, since only requests.RequestException is caught.
GetSectionContent(reply, body) ==
  CASE reply = "ok" -> [raised |-> FALSE, content |-> Str(body)]
    [] reply = "api_error" -> [raised |-> FALSE, content |-> None]
    [] reply = "transport_error" -> [raised |-> FALSE, content |-> None]
    [] OTHER -> [raised |-> TRUE, content |-> None]

SectionReplies == {"ok", "api_error", "transport_error", "bad_reply"}

\* ------------------------------------------------------------- output
Chunk(k, i, title, doc) == [k |-> k, i |-> i, title |-> title, doc |-> doc]

RECURSIVE TocFrom(_, _)
TocFrom(items, i) ==
  IF i > Len(items) THEN <<>>
  ELSE <<Chunk("toc", i, items[i].key, <<>>)>> \o TocFrom(items, i + 1)

\* _write_single_file_header: the header block with the chapter count, and
\* the table of contents
SingleFileHeader(book_title, secs) ==
  <<Chunk("header", Len(secs), <<>>, <<>>)>> \o TocFrom(secs, 1)

\* What `if content: f.write(content) else: f.write(placeholder)` writes.
BodyChunk(content) ==
  IF Truthy(content) THEN Chunk("body", 0, <<>>, content.doc)
  ELSE Chunk("placeholder", 0, <<>>, <<>>)

\* _write_section_to_single_file, after the localizer: the chunks appended
SingleFileSection(title, content) ==
  (IF cfg.auto_title THEN <<Chunk("title", 0, title, <<>>)>> ELSE <<>>)
    \o <<BodyChunk(content), Chunk("end", 0, <<>>, <<>>)>>

\* _write_section_to_separate_file, after the localizer: the file written
SeparateFile(title, content, index) ==
  [name |-> FileName(index, title), title |-> title, body |-> BodyChunk(content)]

\* --------------------------------------------------------- the tasks
Pending == [st |-> "pending", raised |-> FALSE, content |-> None]

NTasks == Len(task)
Running == {i \in 1..NTasks : task[i].st = "running"}
Done == {i \in 1..NTasks : task[i].st = "done"}
Collected == {collected[j] : j \in 1..Len(collected)}

\* GatherComplete with a fault: the write loop starts after the first future.
GatherCompleteEarly(next_collected) == Len(next_collected) >= 1

\* GatherComplete with a fault: the loop waits for one future more than
\* were submitted.
GatherCompleteOneMore(next_collected) == Len(next_collected) = NTasks + 1

\* as_completed has yielded every future: the for loop over it is over.
GatherComplete(next_collected) == Len(next_collected) = NTasks

\* WorkerFree with a fault: the pool starts a thread for every work item.
WorkerFreeUnbounded == TRUE

\* ThreadPoolExecutor(max_workers=...): a queued work item is taken only by
\* one of at most max_workers threads, each running one task at a time.
WorkerFree == Cardinality(Running) < cfg.max_workers

\* A worker thread of the pool takes the oldest queued work item.
TaskStart(i) ==
  /\ i \in 1..NTasks
  /\ task[i].st = "pending"
  /\ \A j \in 1..(i - 1) : task[j].st # "pending"
  /\ WorkerFree
  /\ task' = [task EXCEPT ![i].st = "running"]
  /\ UNCHANGED <<pc, mainVars, sections, api_sections, collected, results, wi,
                 success_count, file, files, summary, imgVars, locVars>>

\* _fetch_section_content: the request, its reply, the sleep, the return.
TaskFinish(i) ==
  /\ i \in 1..NTasks
  /\ task[i].st = "running"
  /\ \E reply \in SectionReplies, body \in Bodies(sections[i].val) :
       LET r == GetSectionContent(reply, body)
       IN  task' = [task EXCEPT ![i] = [st |-> "done", raised |-> r.raised,
                                        content |-> r.content]]
  /\ UNCHANGED <<pc, mainVars, sections, api_sections, collected, results, wi,
                 success_count, file, files, summary, imgVars, locVars>>

\* One round of `for future in as_completed(...)`: the result is stored
\* under the title the task returned, None under the title of the item of
\* a task that raised.  After the last future the write loop starts.
\* CollectOutcome with a fault: no try/except around future.result(), so the
\* exception of a task leaves scrape_booklet and ends main.
CollectOutcomeNoCatch(i) ==
  IF task[i].raised
  THEN [results |-> results, pc |-> "exit", exit_code |-> 1]
  ELSE [results |-> DictPut(results, sections[i].key, task[i].content),
        pc |-> IF GatherComplete(Append(collected, i)) THEN "write" ELSE "gather",
        exit_code |-> exit_code]

\* The body of that loop for the future of item i: what results, pc and
\* exit_code become.
CollectOutcome(i) ==
  [results |-> DictPut(results, sections[i].key,
                       IF task[i].raised THEN None ELSE task[i].content),
   pc |-> IF GatherComplete(Append(collected, i)) THEN "write" ELSE "gather",
   exit_code |-> exit_code]

Collect(i) ==
  /\ pc = "gather"
  /\ i \in Done \ Collected
  /\ collected' = Append(collected, i)
  /\ results' = CollectOutcome(i).results
  /\ pc' = CollectOutcome(i).pc
  /\ exit_code' = CollectOutcome(i).exit_code
  /\ UNCHANGED <<cfg, book_id_list, bi, invoked, outputs, list_failed, shelf, sections,
                 api_sections, task, wi, success_count, file, files, summary,
                 imgVars, locVars>>


\* ------------------------------------------------------ scrape_booklet
NoSummary == [succeeded |-> 0, total |-> 0, images |-> 0, book_id |-> 0]

BookId == book_id_list[bi]

\* get_booklet_sections raises (a non-zero err_no, a transport failure):
\* scrape_booklet logs and re-raises, main prints and returns 1.
ListFails ==
  /\ pc = "loop"
  /\ bi <= Len(book_id_list)
  /\ BookId \notin cfg.exclude
  /\ \E reply \in {"api_error", "transport_error"} :
       /\ invoked' = Append(invoked, BookId)
       /\ list_failed' = list_failed \cup {BookId}
       /\ exit_code' = 1
       /\ pc' = "exit"
  /\ UNCHANGED <<cfg, book_id_list, bi, outputs, shelf, bookVars, imgVars, locVars>>

\* ListEmpty with a fault: the output structure is prepared before the
\* sections are looked at.
ListEmptyAfterPrepare ==
  /\ pc = "loop"
  /\ bi <= Len(book_id_list)
  /\ BookId \notin cfg.exclude
  /\ invoked' = Append(invoked, BookId)
  /\ bi' = bi + 1
  /\ outputs' = outputs \cup {BookId}
  /\ UNCHANGED <<cfg, pc, exit_code, book_id_list, list_failed, shelf, bookVars,
                 imgVars, locVars>>

\* The reply has no section: "if not sections: return".
ListEmpty ==
  /\ pc = "loop"
  /\ bi <= Len(book_id_list)
  /\ BookId \notin cfg.exclude
  /\ invoked' = Append(invoked, BookId)
  /\ bi' = bi + 1
  /\ UNCHANGED <<cfg, pc, exit_code, book_id_list, outputs, list_failed, shelf, bookVars,
                 imgVars, locVars>>

\* The reply has sections: the dict is built, the output structure and a new
\* ImageDownloader are made, the header is written, the tasks are submitted.
ListOk ==
  /\ pc = "loop"
  /\ bi <= Len(book_id_list)
  /\ BookId \notin cfg.exclude
  /\ \E secs \in Listings(BookId) \ {<<>>} :
       /\ api_sections' = secs
       /\ sections' = SectionsDict(secs)
       /\ task' = [i \in 1..Len(sections') |-> Pending]
       /\ file' = IF cfg.merge_single_file THEN SingleFileHeader(BookId, sections')
                  ELSE <<>>
  /\ invoked' = Append(invoked, BookId)
  /\ outputs' = outputs \cup {BookId}
  /\ files' = {}
  /\ collected' = <<>>
  /\ results' = <<>>
  /\ wi' = 1
  /\ success_count' = 0
  /\ summary' = NoSummary
  /\ IF cfg.download_images
     THEN /\ image_downloader' = NewDownloader
          /\ requests' = <<>>
          /\ cache_writes' = {}
     ELSE UNCHANGED imgVars
  /\ loc_in' = <<>>
  /\ loc_out' = <<>>
  /\ pc' = "gather"
  /\ UNCHANGED <<cfg, exit_code, book_id_list, bi, list_failed, shelf, loc, calls, req_at_call>>
  /\ dl_failed' = {}

\* SectionItem with a fault: the write loop walks the results as they came in.
SectionItemAsCompleted(i) == sections[collected[i]]

\* (title, _) of the i-th round of the write loop over section_items
SectionItem(i) == sections[i]

\* The write functions after the localizer (content is what is written),
\* and the success count of the loop (fetched is results.get(title)).
WriteSection(title, content, fetched) ==
  /\ IF cfg.merge_single_file
     THEN /\ file' = file \o SingleFileSection(title, content)
          /\ UNCHANGED files
     ELSE /\ files' = {f \in files : f.name # FileName(wi, title)}
                        \cup {SeparateFile(title, content, wi)}
          /\ UNCHANGED file
  /\ success_count' = IF Truthy(fetched) THEN success_count + 1 ELSE success_count
  /\ wi' = wi + 1

Localizes(content) == Truthy(content) /\ image_downloader.exists

\* A round of the write loop whose content does not go through the localizer.
WriteDirect ==
  /\ pc = "write"
  /\ wi <= Len(sections)
  /\ loc.lpc = "idle"
  /\ LET title == SectionItem(wi).key
         content == DictGet(results, title)
     IN  /\ ~Localizes(content)
         /\ WriteSection(title, content, content)
  /\ UNCHANGED <<pc, mainVars, sections, api_sections, task, collected, results,
                 summary, imgVars, locVars>>

\* A round of the write loop that enters extract_and_download_images.
LocalizeBegin ==
  /\ pc = "write"
  /\ wi <= Len(sections)
  /\ loc.lpc = "idle"
  /\ LET content == DictGet(results, SectionItem(wi).key)
     IN  /\ Localizes(content)
         /\ loc' = ExtractBegin(content.doc)
         /\ loc_in' = content.doc
  /\ req_at_call' = Len(requests)
  /\ dl_failed' = {}
  /\ UNCHANGED <<pc, mainVars, bookVars, imgVars, calls, loc_out>>

\* extract_and_download_images returns and the round writes its result.
WriteLocalized ==
  /\ pc = "write"
  /\ loc.lpc = "ret"
  /\ LET title == SectionItem(wi).key
     IN  WriteSection(title, Str(loc.content), DictGet(results, title))
  /\ loc' = LocIdle
  /\ loc_out' = loc.content
  /\ UNCHANGED <<pc, mainVars, sections, api_sections, task, collected, results,
                 summary, imgVars, calls, req_at_call, dl_failed, loc_in>>

\* The end of scrape_booklet: the two summary lines, then the next identifier.
ScrapeDone ==
  /\ pc = "write"
  /\ wi > Len(sections)
  /\ loc.lpc = "idle"
  /\ summary' = [succeeded |-> success_count, total |-> Len(sections),
                 images |-> IF image_downloader.exists
                            THEN Len(image_downloader.downloaded_images) ELSE 0,
                 book_id |-> BookId]
  /\ pc' = "loop"
  /\ bi' = bi + 1
  /\ UNCHANGED <<cfg, exit_code, book_id_list, invoked, outputs, list_failed, shelf, sections,
                 api_sections, task, collected, results, wi, success_count, file,
                 files, imgVars, locVars>>

\* ---------------------------------------------------------------- main
GetBookList ==
  /\ pc = "start"
  /\ \E reply \in BookListReplies, owned \in OwnedLists :
       LET r == IF cfg.auto_all THEN GetBookListResult(reply, owned)
                ELSE [raised |-> FALSE, ids |-> <<cfg.book_id>>]
       IN /\ shelf' = IF cfg.auto_all
                       THEN [reply |-> reply,
                             owned |-> IF reply = "ok" THEN owned ELSE <<>>]
                       ELSE NoShelf
          /\ IF r.raised
             THEN \* main's "except Exception": return 1
                  /\ exit_code' = 1
                  /\ pc' = "exit"
                  /\ UNCHANGED <<book_id_list, bi>>
             ELSE /\ book_id_list' = r.ids
                  /\ bi' = 1
                  /\ pc' = "loop"
                  /\ UNCHANGED exit_code
  /\ UNCHANGED <<cfg, invoked, outputs, list_failed, bookVars, imgVars, locVars>>

\* "if book_id in scraper.config.exclude: continue"
SkipExcluded ==
  /\ pc = "loop"
  /\ bi <= Len(book_id_list)
  /\ BookId \in cfg.exclude
  /\ bi' = bi + 1
  /\ UNCHANGED <<cfg, pc, exit_code, book_id_list, invoked, outputs, list_failed, shelf,
                 bookVars, imgVars, locVars>>

MainExit ==
  /\ pc = "loop"
  /\ bi > Len(book_id_list)
  /\ exit_code' = 0
  /\ pc' = "exit"
  /\ UNCHANGED <<cfg, book_id_list, bi, invoked, outputs, list_failed, shelf, bookVars,
                 imgVars, locVars>>

\* What every run starts from, but for the configuration and the main thread.
Fresh ==
  /\ exit_code = -1
  /\ book_id_list = <<>>
  /\ bi = 0
  /\ invoked = <<>>
  /\ outputs = {}
  /\ list_failed = {}
  /\ shelf = NoShelf
  /\ sections = <<>>
  /\ api_sections = <<>>
  /\ task = <<>>
  /\ collected = <<>>
  /\ results = <<>>
  /\ wi = 0
  /\ success_count = 0
  /\ file = <<>>
  /\ files = {}
  /\ summary = NoSummary
  /\ requests = <<>>
  /\ cache_writes = {}
  /\ loc = LocIdle
  /\ calls = 0
  /\ req_at_call = 0
  /\ dl_failed = {}
  /\ loc_in = <<>>
  /\ loc_out = <<>>

\* BookletScraper.__init__ on a loaded configuration, before main's first call
Init ==
  /\ cfg \in Configs
  /\ pc = "start"
  /\ image_downloader = NoDownloader
  /\ Fresh

Next ==
  \/ GetBookList
  \/ SkipExcluded
  \/ ListFails
  \/ ListEmpty
  \/ ListOk
  \/ \E i \in 1..MaxChapters : TaskStart(i)
  \/ \E i \in 1..MaxChapters : TaskFinish(i)
  \/ \E i \in 1..MaxChapters : Collect(i)
  \/ WriteDirect
  \/ LocalizeBegin
  \/ LocMatch
  \/ LocResponse
  \/ WriteLocalized
  \/ ScrapeDone
  \/ MainExit

Spec == Init /\ [][Next]_vars

\* ------------------------------------------- the localizer on its own
\* One ImageDownloader and a sequence of extract_and_download_images calls,
\* each on a document of LocDocs or on the document the last call returned.
U1ws == [U1 EXCEPT !.ws = TRUE]

LocDocs ==
  {<<>>,
   <<Md(0, U1), Text(0), Md(0, U1)>>,
   <<Md(0, U1), Md(1, U1)>>,
   <<Md(0, U2), Html(U2)>>,
   <<Md(0, R1), Md(0, R1)>>,
   <<Md(0, U1ws), Md(0, U1)>>,
   <<Md(0, U1), Html(U2)>>}

LocConfig == [cookie |-> "c", book_id |-> 1, max_workers |-> 1, auto_title |-> TRUE,
              auto_all |-> FALSE, merge_single_file |-> TRUE,
              download_images |-> TRUE, exclude |-> {2}]

LocInit ==
  /\ cfg = LocConfig
  /\ pc = "loc"
  /\ image_downloader = NewDownloader
  /\ Fresh

LocCall ==
  /\ pc = "loc"
  /\ loc.lpc = "idle"
  /\ calls < MaxCalls
  /\ \E doc \in LocDocs \cup {loc_out} :
       /\ loc' = ExtractBegin(doc)
       /\ loc_in' = doc
  /\ calls' = calls + 1
  /\ req_at_call' = Len(requests)
  /\ dl_failed' = {}
  /\ UNCHANGED <<pc, mainVars, bookVars, imgVars, loc_out>>

LocReturn ==
  /\ pc = "loc"
  /\ loc.lpc = "ret"
  /\ loc_out' = loc.content
  /\ loc' = LocIdle
  /\ UNCHANGED <<pc, mainVars, bookVars, imgVars, calls, req_at_call, dl_failed, loc_in>>

LocNext ==
  \/ LocCall
  \/ LocMatch
  \/ LocResponse
  \/ LocReturn

LocSpec == LocInit /\ [][LocNext]_vars

\* ------------------------------------ the write loop in multi-file mode
\* The write loop of scrape_booklet on its own, on booklets of one chapter
\* with a title drawn from TitleInputs, and on a short and a long booklet
\* with numbered titles, entered where the loop stands after its first
\* rounds.  No chapter has a body: every file holds the placeholder.
TitleChars == {"a", " ", "\t"} \cup Illegal

RECURSIVE StringsUpTo(_)
StringsUpTo(n) ==
  IF n = 0 THEN {<<>>}
  ELSE LET shorter == StringsUpTo(n - 1)
       IN  shorter \cup {Append(t, c) : t \in shorter, c \in TitleChars}

Repeat(c, n) == [i \in 1..n |-> c]

\* Titles around the length cap, with and without blanks or illegal
\* characters at their ends.
LongTitles ==
  {pre \o Repeat(c, n) \o post :
     pre \in {<<>>, <<" ">>, <<"/">>}, post \in {<<>>, <<" ">>, <<"a">>, <<"/">>},
     c \in {"a", " ", "/"}, n \in {NameCap - 1, NameCap, NameCap + 1}}

TitleInputs == StringsUpTo(MaxShort) \cup LongTitles

\* The title of the k-th chapter of a numbered booklet: two neighbours
\* differ in an illegal character only.
NumberedTitle(k) == <<"c">> \o Decimal(k \div 2) \o <<IF k % 2 = 0 THEN "/" ELSE "?">>

\* One chapter more than the indexes PadWidth digits can hold, plus one.
LongBooklet == 10 ^ PadWidth + 1

NameBooklets ==
  {<<t>> : t \in TitleInputs} \cup
    {[k \in 1..n |-> NumberedTitle(k)] : n \in {ScenarioChapters, LongBooklet}}

NameConfig == [cookie |-> "c", book_id |-> 1, max_workers |-> 1, auto_title |-> TRUE,
               auto_all |-> FALSE, merge_single_file |-> FALSE,
               download_images |-> FALSE, exclude |-> {2}]

\* The round the loop is entered at: the first one, and in the long booklet
\* the one before the index outgrows PadWidth digits.
FirstRound(titles) == IF Len(titles) = LongBooklet THEN Len(titles) - 2 ELSE 1

NameInit ==
  \E titles \in NameBooklets :
    LET n == Len(titles)
    IN  /\ cfg = NameConfig
        /\ pc = "write"
        /\ exit_code = -1
        /\ book_id_list = <<cfg.book_id>>
        /\ bi = 1
        /\ invoked = <<cfg.book_id>>
        /\ outputs = {cfg.book_id}
        /\ list_failed = {}
        /\ shelf = NoShelf
        /\ api_sections = [k \in 1..n |-> [draft_title |-> titles[k], section_id |-> k]]
        /\ sections = [k \in 1..n |-> [key |-> titles[k], val |-> k]]
        /\ task = [k \in 1..n |-> [st |-> "done", raised |-> FALSE, content |-> None]]
        /\ collected = [k \in 1..n |-> k]
        /\ results = [k \in 1..n |-> [key |-> titles[k], val |-> None]]
        /\ wi = FirstRound(titles)
        /\ success_count = 0
        /\ file = <<>>
        /\ files = {SeparateFile(titles[k], None, k) : k \in 1..(FirstRound(titles) - 1)}
        /\ summary = NoSummary
        /\ image_downloader = NoDownloader
        /\ requests = <<>>
        /\ cache_writes = {}
        /\ loc = LocIdle
        /\ calls = 0
        /\ req_at_call = 0
        /\ dl_failed = {}
        /\ loc_in = <<>>
        /\ loc_out = <<>>

NameNext == WriteDirect

NameSpec == NameInit /\ [][NameNext]_vars


\* ================================================================ claims
Range(q) == {q[j] : j \in 1..Len(q)}

\* The parts of the single file.
Toc(f) == SelectSeq(f, LAMBDA c : c.k = "toc")
ChapterPart(f) == SelectSeq(f, LAMBDA c : c.k \notin {"header", "toc"})
FileBodies(f) == SelectSeq(f, LAMBDA c : c.k \in {"body", "placeholder"})
FileTitles(f) == SelectSeq(f, LAMBDA c : c.k = "title")

\* The body chunk b is the chapter of the item: its text carries the item's
\* section id, or it is the placeholder of an item with nothing to write.
IsChapterOf(b, item) ==
  IF b.k = "body" THEN b.doc[1] = Text(item.val)
  ELSE ~Truthy(DictGet(results, item.key))

AllWritten == pc = "write" /\ wi > Len(sections) /\ loc.lpc = "idle"

\* C1: whatever the order in which the fetch tasks complete, the chapters
\* are written in the order of the items get_booklet_sections returned: the
\* k-th section of the single file, and the file with index k, is the k-th
\* item, and once the write loop is over every item has been written.
C1_WrittenInListOrder ==
  /\ cfg.merge_single_file =>
       /\ Len(FileBodies(file)) <= Len(sections)
       /\ \A k \in 1..Len(FileBodies(file)) : IsChapterOf(FileBodies(file)[k], sections[k])
       /\ \A k \in 1..Len(FileTitles(file)) : FileTitles(file)[k].title = sections[k].key
       /\ AllWritten => Len(FileBodies(file)) = Len(sections)
  /\ ~cfg.merge_single_file =>
       /\ Cardinality(files) <= Len(sections)
       /\ \A k \in 1..Cardinality(files) :
            \E f \in files : /\ f.name = FileName(k, sections[k].key)
                             /\ f.title = sections[k].key
                             /\ IsChapterOf(f.body, sections[k])
       /\ AllWritten => Cardinality(files) = Len(sections)

\* C1 witness: two chapters fetched, the second collected first, both written.
C1_Witness ==
  /\ AllWritten
  /\ collected = <<2, 1>>
  /\ cfg.merge_single_file
  /\ Len(FileBodies(file)) = 2
  /\ \A k \in 1..2 : FileBodies(file)[k].k = "body"

\* C2: the fetch stage yields one result per chapter of the list the API
\* reported, at the chapter's position, with the body fetched for its id.
C2_OneResultPerChapterRef ==
  pc = "write" =>
    /\ Len(sections) = Len(api_sections)
    /\ Len(results) = Len(api_sections)
    /\ \A i \in 1..Len(api_sections) :
         /\ sections[i].key = api_sections[i].draft_title
         /\ sections[i].val = api_sections[i].section_id
         /\ LET r == DictGet(results, sections[i].key)
            IN  Truthy(r) => r.doc[1] = Text(api_sections[i].section_id)

\* The image references of a document and the positions of a URL in it.
IsImage(t) == t.syn \in {"md", "html"}
ImageUrls(doc) == {doc[p].url : p \in {q \in 1..Len(doc) : IsImage(doc[q])}}
Refs(doc, u) == {p \in 1..Len(doc) : IsImage(doc[p]) /\ doc[p].url = u}
RequestsFor(u) == {j \in 1..Len(requests) : requests[j] = Strip(u)}

\* C3: no URL is requested twice by one ImageDownloader, and when a call
\* returns, each URL of its document was requested once and all its
\* references point at one local path.
C3_OneDownloadPerUrl ==
  /\ \A i, j \in 1..Len(requests) : requests[i] = requests[j] => i = j
  /\ loc.lpc = "ret" =>
       \A u \in ImageUrls(loc_in) :
         /\ Cardinality(RequestsFor(u)) = 1
         /\ \E p \in Refs(loc_in, u) :
              /\ loc.content[p].url.kind = "local"
              /\ \A q \in Refs(loc_in, u) : loc.content[q].url = loc.content[p].url

\* The local paths the ImageDownloader has handed out.
CachePaths == {image_downloader.downloaded_images[j].val :
                 j \in 1..Len(image_downloader.downloaded_images)}

\* The document was localized by this ImageDownloader: it has images and
\* each of them points at a path of the cache.
Localized(doc) == ImageUrls(doc) # {} /\ ImageUrls(doc) \subseteq CachePaths

\* C4: a call on an already localized document sends no request and returns
\* the document as it was.
C4_Idempotent ==
  (loc.lpc # "idle" /\ Localized(loc_in)) =>
    /\ Len(requests) = req_at_call
    /\ loc.lpc = "ret" => loc.content = loc_in

\* The tasks that failed to fetch: the task raised or returned None.
Failed == {i \in 1..NTasks : task[i].raised \/ ~task[i].content.ok}

\* C5: single-file mode, after the run of a booklet of N chapters: N entries
\* in the table of contents, N chapter entries in the same order, the
\* placeholder for each failed chapter, and N - failed out of N in the summary.
C5_IndexAligned ==
  (cfg.merge_single_file /\ summary.book_id # 0) =>
    LET N == Len(api_sections)
    IN  /\ Len(Toc(file)) = N
        /\ Len(FileBodies(file)) = N
        /\ \A i \in 1..N : /\ Toc(file)[i].title = api_sections[i].draft_title
                           /\ IsChapterOf(FileBodies(file)[i], sections[i])
                           /\ i \in Failed => FileBodies(file)[i].k = "placeholder"
        /\ cfg.auto_title =>
             \A i \in 1..N : FileTitles(file)[i].title = Toc(file)[i].title
        /\ summary.total = N
        /\ summary.succeeded = N - Cardinality(Failed)

\* C6: the result of a failed task is None and that of every other task is
\* what it returned; when the write loop starts every task has finished and
\* has its result; a run ends with an error only when a listing call or the
\* bookshelf call raised, never because of a fetch task.
BookListRaised == pc = "exit" /\ bi = 0

C6_FaultIsolation ==
  /\ \A i \in Collected :
       /\ HasKey(results, sections[i].key)
       /\ DictGet(results, sections[i].key) =
            IF i \in Failed THEN None ELSE task[i].content
  /\ pc = "write" => /\ \A i \in 1..NTasks : task[i].st = "done"
                      /\ Collected = 1..NTasks
  /\ exit_code = 1 => (list_failed # {} \/ BookListRaised)

\* C6 witness: the first task raised, the second returned a body, and both
\* results are there when the write loop starts.
C6_Witness ==
  /\ pc = "write"
  /\ NTasks = 2
  /\ task[1].raised
  /\ Truthy(task[2].content)
  /\ collected = <<1, 2>>
  /\ DictGet(results, sections[2].key) = task[2].content

\* The chapter part of the file is a sequence of whole chapters: the title
\* when auto_title is set, the body or the placeholder, the closing blank.
RECURSIVE WholeChapters(_)
WholeChapters(cs) ==
  IF cs = <<>> THEN TRUE
  ELSE IF cfg.auto_title
  THEN /\ Len(cs) >= 3
       /\ cs[1].k = "title"
       /\ cs[2].k \in {"body", "placeholder"}
       /\ cs[3].k = "end"
       /\ WholeChapters(SubSeq(cs, 4, Len(cs)))
  ELSE /\ Len(cs) >= 2
       /\ cs[1].k \in {"body", "placeholder"}
       /\ cs[2].k = "end"
       /\ WholeChapters(SubSeq(cs, 3, Len(cs)))

\* C7: in single-file mode every append to the file after the header is a
\* step of the main thread's write loop, taken when every fetch task has
\* finished, and it leaves whole chapters in the file.
C7_AppendAfterFetch ==
  [][(cfg.merge_single_file /\ pc # "loop" /\ file' # file) =>
       /\ pc = "write"
       /\ \A i \in 1..NTasks : task[i].st = "done"
       /\ Len(ChapterPart(file')) > Len(ChapterPart(file))
       /\ WholeChapters(ChapterPart(file'))]_vars

\* C7 witness: one worker, two chapters, the first one appended.
C7_Witness ==
  /\ cfg.merge_single_file
  /\ cfg.max_workers = 1
  /\ pc = "write"
  /\ NTasks = 2
  /\ wi = 2
  /\ Len(FileBodies(file)) = 1

\* The threads inside download_image: the main thread while its request is
\* out, and the tasks in a download step, which _fetch_section_content has not.
ThreadsDownloading ==
  (IF loc.lpc = "await" THEN {0} ELSE {}) \cup
    {i \in 1..NTasks : task[i].st = "downloading"}

\* C8: never two threads in download_image, and never two different local
\* paths stored for one URL during a run.
C8_NoCacheRace ==
  /\ Cardinality(ThreadsDownloading) <= 1
  /\ \A w1, w2 \in cache_writes : w1.url = w2.url => w1.path = w2.path

NotExcluded(b) == b \notin cfg.exclude

\* C9: a listing failure leaves no output for its booklet and does not keep
\* the other identifiers that are not excluded from being processed.
C9_OnlyThatTarget ==
  pc = "exit" =>
    /\ list_failed \cap outputs = {}
    /\ \A k \in 1..Len(book_id_list) :
         NotExcluded(book_id_list[k]) => book_id_list[k] \in Range(invoked)

\* C10: with auto_all, scrape_booklet is invoked on the owned identifiers
\* that equal no exclusion entry, once each, in the order of the list.
C10_ExactlyTheNotExcluded ==
  (pc = "exit" /\ cfg.auto_all) =>
    /\ invoked = SelectSeq(book_id_list, NotExcluded)
    /\ (Len(book_id_list) = 3 /\ Cardinality(Range(book_id_list) \cap cfg.exclude) = 1)
         => Len(invoked) = 2

\* C11: get_book_list never raises; it returns the identifiers of the reply
\* on success and the empty sequence when the account owns none or the call
\* fails (transport failure, HTTP error status, or a reply whose err_no is
\* not zero and that carries no data).
C11_NeverRaises ==
  (cfg.auto_all /\ pc # "start" /\ pc # "loc") =>
    /\ ~BookListRaised
    /\ shelf.reply \in BookListReplies
    /\ book_id_list = IF shelf.reply = "ok" THEN shelf.owned ELSE <<>>

\* The run under fair scheduling: the pool's threads and the main thread keep
\* running, and every HTTP call returns or fails (each has a timeout), so a
\* step that can be taken is taken in the end.
FairSpec == Spec /\ WF_vars(Next)

\* The booklet's scrape_booklet call has returned normally: every task is
\* done, the output has an entry for each item of the list, in single-file
\* mode a chapter entry and in multi-file mode a file.
BookletWritten ==
  /\ pc = "loop"
  /\ exit_code = -1
  /\ summary.book_id # 0
  /\ summary.total = Len(sections)
  /\ \A i \in 1..NTasks : task[i].st = "done"
  /\ NTasks = Len(sections)
  /\ IF cfg.merge_single_file
     THEN /\ Len(FileBodies(file)) = Len(sections)
          /\ \A k \in 1..Len(sections) : IsChapterOf(FileBodies(file)[k], sections[k])
     ELSE /\ Cardinality(files) = Len(sections)
          /\ \A k \in 1..Len(sections) : \E f \in files : f.title = sections[k].key

\* C12: once a non-empty chapter list has been obtained, and every HTTP call
\* returns or fails, scrape_booklet returns without an error after all its
\* tasks are done, with an output that has an entry for every chapter of the
\* list, whichever chapter and image fetches failed.
C12_Terminates == (pc = "gather") ~> BookletWritten

\* C12 witness: a booklet of two chapters is over, one chapter fetch failed
\* and an image download of the other chapter failed.
C12_Witness ==
  /\ BookletWritten
  /\ NTasks = 2
  /\ Cardinality(Failed) = 1
  /\ Len(requests) > Len(image_downloader.downloaded_images)

\* C13: never more than max_workers fetch tasks between their start and the
\* end of their sleep; one task per item of the list, each of them pending
\* until a worker takes it and done, never started again, by the time the
\* write loop runs.
C13_BoundedDispatch ==
  /\ Cardinality(Running) <= cfg.max_workers
  /\ pc \in {"gather", "write"} =>
       /\ NTasks = Len(sections)
       /\ \A i \in 1..NTasks : task[i].st \in {"pending", "running", "done"}
       /\ \A i \in Collected : task[i].st = "done"
  /\ pc = "write" => \A i \in 1..NTasks : task[i].st = "done"

\* C13 witness: one worker and two chapters, the first task is running and
\* the second one waits in the queue.
C13_Witness ==
  /\ pc = "gather"
  /\ cfg.max_workers = 1
  /\ NTasks = 2
  /\ task[1].st = "running"
  /\ task[2].st = "pending"

\* The positions of the document's references to the image of URL u, as
\* download_image is given it.
RefsTo(doc, u) == {p \in 1..Len(doc) : IsImage(doc[p]) /\ Strip(doc[p].url) = u}

\* C14: when a call of extract_and_download_images returns and the download
\* of an image failed in it, every reference to that image is as it was, the
\* text that is no image reference is as it was, every other image of the
\* document points at a local path, and the cache has no entry for the
\* failed URL.
C14_FailureLeavesReference ==
  (loc.lpc = "ret" /\ dl_failed # {}) =>
    /\ Len(loc.content) = Len(loc_in)
    /\ \A p \in 1..Len(loc_in) : ~IsImage(loc_in[p]) => loc.content[p] = loc_in[p]
    /\ \A u \in dl_failed :
         /\ \A p \in RefsTo(loc_in, u) : loc.content[p] = loc_in[p]
         /\ ~HasKey(image_downloader.downloaded_images, u)
         /\ ~HasKey(image_downloader.downloaded_images, UrlJoin(u))
    /\ \A p \in 1..Len(loc_in) :
         (IsImage(loc_in[p]) /\ Strip(loc_in[p].url) \notin dl_failed)
           => loc.content[p].url.kind = "local"

\* The characters of the file names of NameSpec in code point order, and
\* the order of two strings as a lexical sort puts them.
CodePointOrder ==
  <<"\t", " ", ".", "0", "1", "2", "3", "4", "5", "6", "7", "8", "9", "_", "a", "c",
    "d", "e", "i", "l", "m", "n", "t", "u">>

Ord(c) == CHOOSE i \in 1..Len(CodePointOrder) : CodePointOrder[i] = c

RECURSIVE LexLess(_, _)
LexLess(a, b) ==
  IF b = <<>> THEN FALSE
  ELSE IF a = <<>> THEN TRUE
  ELSE IF Head(a) = Head(b) THEN LexLess(Tail(a), Tail(b))
  ELSE Ord(Head(a)) < Ord(Head(b))

FileNames == {f.name : f \in files}

\* The files written so far are those of the chapters 1..wi-1, each named
\* by its padded index and its sanitized title, and no two share a name.
NamedByIndex ==
  /\ \A k \in 1..(wi - 1) : FileName(k, sections[k].key) \in FileNames
  /\ \A k \in 1..(wi - 1) :
       LET name == FileName(k, sections[k].key)
           digits == ZeroPad(Decimal(k), PadWidth)
       IN  /\ SubSeq(name, 1, Len(digits) + 1) = digits \o <<"_">>
           /\ k < 10 ^ PadWidth => Len(digits) = PadWidth
  /\ Cardinality(FileNames) = wi - 1
  /\ Cardinality(files) = wi - 1

\* The names of the chapters 1..n sort lexically in the order of the chapters.
SortedUpTo(n) ==
  \A k \in 1..(n - 1) :
    LexLess(FileName(k, sections[k].key), FileName(k + 1, sections[k + 1].key))

\* The largest index PadWidth digits hold.
PadLimit == 10 ^ PadWidth - 1

\* C15: in multi-file mode the file of the i-th chapter is named with the
\* zero-padded index i and the sanitized title, the names are pairwise
\* distinct, and for every number of chapters the lexical order of the names
\* is the order of the chapters.
C15_LexicalOrder ==
  (~cfg.merge_single_file /\ pc = "write") =>
    /\ NamedByIndex
    /\ SortedUpTo(wi - 1)

\* C15 as it holds: the same, the lexical order for the chapters up to the
\* largest index of PadWidth digits, 999.
C15_LexicalOrderUpToPadLimit ==
  (~cfg.merge_single_file /\ pc = "write") =>
    /\ NamedByIndex
    /\ SortedUpTo(IF wi - 1 <= PadLimit THEN wi - 1 ELSE PadLimit)

\* C15 witness: the files of the short booklet are written, 001_ to 012_
\* among them.
C15_Witness ==
  /\ ~cfg.merge_single_file
  /\ pc = "write"
  /\ Len(sections) = ScenarioChapters
  /\ wi = ScenarioChapters + 1
  /\ Cardinality(files) = ScenarioChapters
  /\ <<"0", "0", "1", "_", "c", "0", "_", ".", "m", "d">> \in FileNames
  /\ <<"0", "1", "2", "_", "c", "6", "_", ".", "m", "d">> \in FileNames

\* The sanitized title inside a file name: what stands between the first
\* underscore, which ends the index, and the suffix ".md".
SafeTitleOf(name) ==
  LET p == CHOOSE q \in 1..Len(name) :
             name[q] = "_" /\ \A r \in 1..(q - 1) : name[r] # "_"
  IN  SubSeq(name, p + 1, Len(name) - 3)

Blank(title) == \A i \in 1..Len(title) : title[i] \in Whitespace

\* C16: the name _sanitize_filename made for a title has none of the
\* characters <>:"/\|?*, is not empty and has at most 100 characters, and it
\* is the placeholder "untitled" when the title is empty or only whitespace.
C16_SafeName ==
  \A f \in files :
    LET safe == SafeTitleOf(f.name)
    IN  /\ \A i \in 1..Len(safe) : safe[i] \notin Illegal
        /\ safe # <<>>
        /\ Len(safe) <= NameCap
        /\ Blank(f.title) => safe = Untitled

\* C16 witness: a file was written for a title longer than the cap that
\* starts with an illegal character and ends with a blank.
C16_Witness ==
  \E f \in files :
    /\ Len(f.title) > NameCap
    /\ f.title[1] \in Illegal
    /\ f.title[Len(f.title)] \in Whitespace
    /\ Len(SafeTitleOf(f.name)) = NameCap

\* C17: a scrape_booklet call whose listing has no chapter returns to main's
\* loop without an error, and leaves the tasks, the output files and
\* directories, the image cache and the requests sent as they were.
C17_EmptyListingWritesNothing ==
  [][(pc = "loop" /\ pc' = "loop" /\ invoked' # invoked) =>
       /\ invoked' = Append(invoked, BookId)
       /\ exit_code' = exit_code
       /\ UNCHANGED <<outputs, file, files, task, results, summary, image_downloader,
                      requests, cache_writes>>]_vars

\* C17 witness: the first booklet was written, the listing of the second one
\* had no chapter, and main's loop goes on.
C17_Witness ==
  /\ pc = "loop"
  /\ exit_code = -1
  /\ Len(invoked) = 2
  /\ outputs = {invoked[1]}
  /\ summary.book_id = invoked[1]
  /\ file # <<>>

\* What was written for the i-th item of the list: its chapter entry in the
\* single file, or the body of its file.
WrittenFor(i) ==
  IF cfg.merge_single_file THEN FileBodies(file)[i]
  ELSE (CHOOSE f \in files : f.name = FileName(i, sections[i].key)).body

\* C18: after the run of a booklet, the placeholder stands for exactly the
\* chapters whose fetch gave None; every other chapter, an empty body
\* included, is written with its body, as fetched when the images are not
\* localized, and counted as succeeded.
C18_PlaceholderIffNone ==
  summary.book_id # 0 =>
    /\ \A i \in 1..Len(sections) :
         /\ WrittenFor(i).k = "placeholder" <=> i \in Failed
         /\ (i \notin Failed /\ ~cfg.download_images) =>
              WrittenFor(i).doc = task[i].content.doc
    /\ summary.succeeded = Len(sections) - Cardinality(Failed)

\* The URLs stored into the cache since the current booklet was begun.
UrlsCachedInBooklet == {w.url : w \in cache_writes}

\* C19: with image localization on, the cache is empty when the tasks of a
\* booklet are submitted, every entry of the cache was stored while the
\* current booklet was processed, so none is read that another booklet
\* made, and the summary counts the images of the current booklet only.
C19_CachePerBooklet ==
  (cfg.download_images /\ pc \in {"gather", "write", "loop", "exit"}) =>
    /\ pc = "gather" => image_downloader.downloaded_images = <<>>
    /\ \A j \in 1..Len(image_downloader.downloaded_images) :
         LET e == image_downloader.downloaded_images[j]
         IN  [url |-> e.key, path |-> e.val] \in cache_writes
    /\ summary.book_id # 0 => summary.images = Cardinality(UrlsCachedInBooklet)

\* C19 witness: the second booklet of a run is over and one image was
\* downloaded for it.
C19_Witness ==
  /\ cfg.download_images
  /\ pc = "loop"
  /\ Cardinality(outputs) = 2
  /\ summary.book_id = invoked[Len(invoked)]
  /\ summary.images = 1
  /\ Len(image_downloader.downloaded_images) = 1

====
